---- MODULE Spec2Model ----
(***************************************************************************)
(* Primordia: a 2D nutrient/toxin field (World), organisms (Organism), the *)
(* player's lineage (PlayerLineage) and the turn loop (game_loop) of       *)
(* src/primordia.py, with the narrator of src/ai_interface.py.             *)
(*                                                                         *)
(* Numbers.  The program computes in float64.  The model computes in       *)
(* fixed point: every quantity (nutrient, toxin, energy, trait value) is   *)
(* an integer count of 1/Unit, and a product or quotient is rounded down   *)
(* to the next 1/Unit.  The values the program starts from (10.0, 100.0,   *)
(* 0.1, 0.2, 0.5, 0.05, 0.02, 0.01, 0.005 ...) are all whole counts.       *)
(***************************************************************************)
EXTENDS Integers, Sequences, FiniteSets, TLC

\* ------------------------------------------------------------------ bounds
\* The world is WORLD_WIDTH x WORLD_HEIGHT (50 x 50 in the program).
WORLD_WIDTH == 4
WORLD_HEIGHT == 4
\* Organisms spawned by PlayerLineage.__init__ (15 in the program).
INITIAL_POPULATION == 2
\* Ticks of one turn: game_loop passes steps=50.
StepsPerTurn == 2
\* Turns of a session the model follows (the program's loop is unbounded).
MaxTurns == 2
\* Population the milestone asks for (50 in the program).
MilestonePop == 1
\* Largest live set the model follows (the program's is unbounded).
MaxPopulation == 3
\* Nutrient blooms that may compound (unbounded in the program).
MaxBlooms == 2
\* Operations of a SpecField / SpecLineage behaviour.
MaxOps == 4

\* ------------------------------------------------------------------- units
Unit == 10 * 100
Max(a, b) == IF a >= b THEN a ELSE b
Min(a, b) == IF a <= b THEN a ELSE b
\* np.sign
Sign(n) == IF n > 0 THEN 1 ELSE IF n < 0 THEN -1 ELSE 0

VARIABLES
    \* World
    diffusion_rate, nutrient_a, toxin_grid, nutrient_amount, active_event,
    \* PlayerLineage
    base_genome, organisms, generation, evolutionary_potential,
    milestone_pop_50_reached,
    \* game_loop / run_simulation_steps: position and locals
    pc, step, idx, survivors, new_offspring,
    narrative, command_response, command, evolved

worldVars == <<diffusion_rate, nutrient_a, toxin_grid, nutrient_amount, active_event>>
lineageVars == <<base_genome, organisms, generation, evolutionary_potential,
                 milestone_pop_50_reached>>
simVars == <<step, idx, survivors, new_offspring>>
turnVars == <<narrative, command_response, command, evolved>>
vars == <<worldVars, lineageVars, simVars, turnVars, pc>>

\* ------------------------------------------------------------------- World
Cells == (0 .. WORLD_WIDTH - 1) \X (0 .. WORLD_HEIGHT - 1)
\* World.__init__: nutrient_source_pos = (width // 2, height // 2)
SourcePos == <<WORLD_WIDTH \div 2, WORLD_HEIGHT \div 2>>
\* World.__init__: nutrient_amount = 10.0
NUTRIENT_AMOUNT == 10 * Unit
\* World.__init__: diffusion_rate = 0.1
DIFFUSION_RATE == Unit \div 10
Events == {"acid_rain", "ice_age", "nutrient_bloom"}

\* The cells of grid[1:-1, 1:-1]
Interior(c) ==
    /\ c[1] \in 1 .. WORLD_WIDTH - 2
    /\ c[2] \in 1 .. WORLD_HEIGHT - 2

\* Up + Down + Left + Right - 4 * centre, for an interior cell
Laplacian(g, c) ==
    g[<<c[1] - 1, c[2]>>] + g[<<c[1] + 1, c[2]>>]
    + g[<<c[1], c[2] - 1>>] + g[<<c[1], c[2] + 1>>] - 4 * g[c]

\* grid[1:-1, 1:-1] += rate * laplacian
Diffuse(g, rate) ==
    [c \in Cells |->
        IF Interior(c) THEN g[c] + ((rate * Laplacian(g, c)) \div Unit) ELSE g[c]]

\* np.clip(grid, 0, None, out=grid)
ClipUnclipped(g) == g
Clip(g) == [c \in Cells |-> Max(g[c], 0)]

\* self.nutrient_a[self.nutrient_source_pos] = self.nutrient_amount
PinSourceForgotten(g, amount) == g
PinSource(g, amount) == [g EXCEPT ![SourcePos] = amount]

\* self.toxin_grid *= 0.95
Decay(g) == [c \in Cells |-> (g[c] * 95) \div 100]

\* update_environment, the toxin block: runs only if some cell is > 0
ToxinDiffused(tox, rate) ==
    IF \E c \in Cells : tox[c] > 0 THEN Clip(Decay(Diffuse(tox, rate))) ELSE tox

\* update_environment, the event effects
IceAgeSource(g, amount, event) ==
    IF event = "ice_age" THEN [g EXCEPT ![SourcePos] = amount \div 2] ELSE g

AcidRain(tox, event) ==
    IF event = "acid_rain" THEN [c \in Cells |-> tox[c] + 5] ELSE tox

\* World.update_environment: the nutrient grid after the call
NutrientAfterUpdate(g, rate, amount, event) ==
    IceAgeSource(Clip(PinSource(Diffuse(g, rate), amount)), amount, event)

\* World.update_environment: the toxin grid after the call
ToxinAfterUpdate(tox, rate, event) == AcidRain(ToxinDiffused(tox, rate), event)

\* World.consume_nutrient: the amount returned
Consumed(current, amount) == Min(current, amount)

\* ---------------------------------------------------------------- Organism
Traits == {"MetabolismRate", "MovementCost", "BaseMetabolism", "SensoryRange",
           "ToxinBResistance"}
\* Organism.REPRODUCTION_ENERGY = 150.0
REPRODUCTION_ENERGY == 150 * Unit
\* Organism.__init__: energy = 100.0
DEFAULT_ENERGY == 100 * Unit

\* PlayerLineage.__init__: base_genome
DefaultGenome ==
    [MetabolismRate |-> Unit \div 10, MovementCost |-> Unit \div 5,
     BaseMetabolism |-> Unit \div 2, SensoryRange |-> Unit,
     ToxinBResistance |-> 0]

\* The dict an organism's self.genome names.  PlayerLineage.spawn_organisms
\* hands every organism the lineage's own base_genome object (shares_base);
\* Organism.reproduce hands the offspring a dict of its own.  For an organism
\* that shares, the field genome keeps the values the dict held when it was
\* attached.
GenomeOf(org) == IF org.shares_base THEN base_genome ELSE org.genome

\* np.random.randint(-1, 2)
RandomSteps == {-1, 0, 1}
\* 1.0 + np.random.uniform(-0.1, 0.1), in 1/Unit: the two ends of the range
MutationFactors == {(9 * Unit) \div 10, (11 * Unit) \div 10}

\* (x + dx) % width, (y + dy) % height
Wrap(x, y) == <<x % WORLD_WIDTH, y % WORLD_HEIGHT>>

\* Organism.sense: int(self.genome.get('SensoryRange', 1))
SensoryRadius(org) == GenomeOf(org).SensoryRange \div Unit

\* Organism.sense: the offsets of the two nested range(-r, r + 1) loops, in
\* the order the loops visit them, (0, 0) skipped
ScanOffsets(r) ==
    LET n == 2 * r + 1
        all == [k \in 1 .. n * n |-> <<((k - 1) \div n) - r, ((k - 1) % n) - r>>]
    IN  SelectSeq(all, LAMBDA o : o # <<0, 0>>)

\* Organism.sense: the loop body from the k-th offset on; best is max_nutrient,
\* d is (self.dx, self.dy)
RECURSIVE ScanFrom(_, _, _, _, _, _)
ScanFrom(offs, k, best, d, org, g) ==
    IF k > Len(offs) THEN d
    ELSE LET o == offs[k]
             level == g[Wrap(org.x + o[1], org.y + o[2])]
         IN  IF level > best
             THEN ScanFrom(offs, k + 1, level, <<Sign(o[1]), Sign(o[2])>>, org, g)
             ELSE ScanFrom(offs, k + 1, best, d, org, g)

\* Organism.sense up to the random fallback: max_nutrient starts at -1
ScanIntent(org, g) ==
    ScanFrom(ScanOffsets(SensoryRadius(org)), 1, -Unit, <<org.dx, org.dy>>, org, g)

\* Organism.move
Moved(org) ==
    LET p == Wrap(org.x + org.dx, org.y + org.dy)
    IN  [org EXCEPT !.x = p[1], !.y = p[2], !.dx = 0, !.dy = 0,
                    !.energy = @ - GenomeOf(org).MovementCost]

\* Organism.eat: amount_to_eat
AmountToEat(org) == GenomeOf(org).MetabolismRate * 10

\* Organism.metabolize
Metabolized(org, tox) ==
    LET resistance == GenomeOf(org).ToxinBResistance
        damage == Max(0, tox[<<org.x, org.y>>] - resistance) * 10
    IN  [org EXCEPT !.energy = @ - GenomeOf(org).BaseMetabolism - damage]

ShouldDieNever(org) == FALSE
ShouldDie(org) == org.energy <= 0
ShouldReproduce(org) == org.energy >= REPRODUCTION_ENERGY

\* Organism._mutate_genome: a deep copy of base, every trait times its factor
MutateGenome(base, f) == [t \in Traits |-> (base[t] * f[t]) \div Unit]

\* Organism.reproduce: the genome the offspring is mutated from
MutationSourceParent(org, base) == GenomeOf(org)
MutationSource(org, base) == base

\* Organism.reproduce: the offspring, org being the parent after self.energy /= 2
Offspring(org, base, f, sx, sy) ==
    LET p == Wrap(org.x + sx, org.y + sy)
        genome == MutateGenome(MutationSource(org, base), f)
    IN  [x |-> p[1], y |-> p[2], energy |-> org.energy, dx |-> 0, dy |-> 0,
         genome |-> genome, shares_base |-> FALSE]

\* ----------------------------------------------------------- PlayerLineage
\* PlayerLineage.evolve_gene: the test  evolutionary_potential >= cost
CanAffordAlways(ep, cost) == TRUE
CanAfford(ep, cost) == ep >= cost

\* PlayerLineage.evolve_gene: base_genome after the call
GenomeAfterEvolve(genome, ep, gene, delta, cost) ==
    IF CanAfford(ep, cost)
    THEN LET g1 == [genome EXCEPT ![gene] = @ + delta]
         IN  IF gene = "ToxinBResistance"
             THEN [g1 EXCEPT !.BaseMetabolism = @ + Unit \div 100]
             ELSE g1
    ELSE genome

\* PlayerLineage.evolve_gene: evolutionary_potential after the call
PotentialAfterEvolve(ep, cost) == IF CanAfford(ep, cost) THEN ep - cost ELSE ep

\* PlayerLineage.evolve_gene: the value returned, True or False
EvolveResult(ep, cost) == IF CanAfford(ep, cost) THEN "True" ELSE "False"

\* game_loop and run_simulation_steps:  not lineage.organisms
ExtinctNever(orgs) == FALSE
Extinct(orgs) == orgs = <<>>

\* check_for_achievements: the test
MilestoneDueNoLatch(population, reached) == population > MilestonePop
MilestoneDue(population, reached) == population > MilestonePop /\ ~reached

\* gather_game_state_for_ai: player_choices
Choices == <<
    [choice |-> "increase_toxin_resistance", cost |-> 60, delta |-> Unit \div 20],
    [choice |-> "decrease_metabolism", cost |-> 40, delta |-> -(Unit \div 50)],
    [choice |-> "improve_sensing", cost |-> 30, delta |-> Unit],
    [choice |-> "wait", cost |-> 0, delta |-> 0] >>

\* game_loop: gene_map
GeneMap ==
    [increase_toxin_resistance |-> "ToxinBResistance",
     decrease_metabolism |-> "BaseMetabolism",
     improve_sensing |-> "SensoryRange"]

\* ---------------------------------------------------------------- narrator
\* What chat.send_message does in get_player_command: it raises, or it returns
\* a response whose text is, with or without a ```json fence around it, prose,
\* a JSON array, a JSON object without the key command_to_execute, or a JSON
\* object with it.
CommandNames == {"increase_toxin_resistance", "decrease_metabolism",
                 "improve_sensing", "wait"}
Bodies ==
    {[kind |-> "prose", cmd |-> "none"], [kind |-> "array", cmd |-> "none"],
     [kind |-> "object", cmd |-> "missing"]}
    \cup {[kind |-> "object", cmd |-> c] : c \in CommandNames \cup {"dance"}}
NarratorReplies ==
    {[raises |-> TRUE, fenced |-> FALSE, body |-> [kind |-> "prose", cmd |-> "none"]]}
    \cup {[raises |-> FALSE, fenced |-> f, body |-> b] : f \in BOOLEAN, b \in Bodies}

\* response.text.strip().replace("```json", "").replace("```", "")
CleanedText(reply) == [reply EXCEPT !.fenced = FALSE]

\* json.loads raises on anything that is not JSON
JsonLoadsRaises(text) == text.fenced \/ text.body.kind = "prose"

\* the dict of the except branch
WaitResponse == [kind |-> "object", cmd |-> "wait"]

\* AIInterface.get_player_command: the value returned
PlayerCommandResponse(reply) ==
    IF reply.raises THEN WaitResponse
    ELSE IF JsonLoadsRaises(CleanedText(reply)) THEN WaitResponse
    ELSE reply.body

\* game_loop: command_response.get("command_to_execute", "wait") raises
\* AttributeError on a value that is no dict
GetRaises(response) == response.kind # "object"
CommandOf(response) == IF response.cmd = "missing" THEN "wait" ELSE response.cmd

\* game_loop: the choice_option the for loop stops at, 0 if none
ChoiceIndex(cmd) ==
    IF \E i \in 1 .. Len(Choices) : Choices[i].choice = cmd
    THEN CHOOSE i \in 1 .. Len(Choices) : Choices[i].choice = cmd
    ELSE 0

\* ------------------------------------------------------------------- state
\* find_spawn_location draws any cell; the model draws from these: the cell
\* next to the source and a corner
NearSource == <<SourcePos[1] - 1, SourcePos[2]>>
Corner == <<0, 0>>
SpawnCells == {NearSource, Corner}

InitWorld(rate) ==
    /\ diffusion_rate = rate
    /\ nutrient_a = [c \in Cells |-> IF c = SourcePos THEN NUTRIENT_AMOUNT ELSE 0]
    /\ toxin_grid = [c \in Cells |-> 0]
    /\ nutrient_amount = NUTRIENT_AMOUNT
    /\ active_event = "none"

\* Organism(self.world, x, y, self.base_genome): an organism of
\* spawn_organisms, which shares the lineage's dict
SpawnedAt(pos, energy) ==
    [x |-> pos[1], y |-> pos[2], energy |-> energy, dx |-> 0, dy |-> 0,
     genome |-> DefaultGenome, shares_base |-> TRUE]

\* The organisms a session is followed from: a fresh organism, and organisms
\* a tick from starving, one that finds food and one that does not
SessionOrganisms ==
    {SpawnedAt(NearSource, DEFAULT_ENERGY), SpawnedAt(NearSource, Unit \div 2),
     SpawnedAt(Corner, Unit \div 2)}

\* The organisms of a PlayerLineage just made
FreshOrganisms == {SpawnedAt(p, DEFAULT_ENERGY) : p \in SpawnCells}

\* PlayerLineage.__init__, with the organisms drawn from orgs
InitLineage(orgs) ==
    /\ base_genome = DefaultGenome
    /\ organisms \in [1 .. INITIAL_POPULATION -> orgs]
    /\ generation = 1
    /\ evolutionary_potential = 100
    /\ milestone_pop_50_reached = FALSE

InitLocals(done) ==
    /\ step = done
    /\ idx = 0
    /\ survivors = <<>>
    /\ new_offspring = <<>>
    /\ narrative = "none"
    /\ command_response = [kind |-> "none", cmd |-> "none"]
    /\ command = "none"
    /\ evolved = "none"

Init ==
    /\ InitWorld(DIFFUSION_RATE)
    /\ InitLineage(SessionOrganisms)
    /\ InitLocals(0)
    /\ pc = "loop_top"

\* ---------------------------------------------------------------- game_loop
\* while True: if not player_lineage.organisms: break.  The locals of the
\* turn before are dead here.
LoopTop ==
    /\ pc = "loop_top"
    /\ IF Extinct(organisms)
       THEN pc' = "done"
       ELSE /\ generation <= MaxTurns
            /\ pc' = "event"
    /\ narrative' = "none"
    /\ command_response' = [kind |-> "none", cmd |-> "none"]
    /\ command' = "none"
    /\ evolved' = "none"
    /\ UNCHANGED <<worldVars, lineageVars, simVars>>

\* world_event_phase: nutrient_amount after the call
AmountAfterEvent(amount, event, chosen) ==
    IF chosen # "none"
    THEN IF chosen = "nutrient_bloom" THEN (amount * 3) \div 2 ELSE amount
    ELSE IF event = "nutrient_bloom" THEN (amount * 2) \div 3 ELSE amount

\* The largest nutrient_amount the model follows
BloomCap == IF MaxBlooms = 0 THEN NUTRIENT_AMOUNT
            ELSE IF MaxBlooms = 1 THEN (NUTRIENT_AMOUNT * 3) \div 2
            ELSE IF MaxBlooms = 2 THEN (NUTRIENT_AMOUNT * 9) \div 4
            ELSE (NUTRIENT_AMOUNT * 27) \div 8

\* world_event_phase(world); chosen is "none" when random.random() >= 0.25
WorldEvent(chosen) ==
    /\ AmountAfterEvent(nutrient_amount, active_event, chosen) <= BloomCap
    /\ nutrient_amount' = AmountAfterEvent(nutrient_amount, active_event, chosen)
    /\ active_event' = chosen
    /\ UNCHANGED <<diffusion_rate, nutrient_a, toxin_grid>>

WorldEventPhase ==
    /\ pc = "event"
    /\ \E chosen \in Events \cup {"none"} : WorldEvent(chosen)
    /\ pc' = "sim"
    /\ step' = 0
    /\ UNCHANGED <<lineageVars, idx, survivors, new_offspring, turnVars>>

\* World.update_environment
UpdateEnvironment ==
    /\ nutrient_a' = NutrientAfterUpdate(nutrient_a, diffusion_rate,
                                         nutrient_amount, active_event)
    /\ toxin_grid' = ToxinAfterUpdate(toxin_grid, diffusion_rate, active_event)
    /\ UNCHANGED <<diffusion_rate, nutrient_amount, active_event>>

\* run_simulation_steps: one pass of  for step in range(steps)  up to the
\* organisms' loop
TickBegin ==
    /\ pc = "sim"
    /\ step < StepsPerTurn
    /\ ~Extinct(organisms)
    /\ UpdateEnvironment
    /\ survivors' = <<>>
    /\ new_offspring' = <<>>
    /\ idx' = 1
    /\ pc' = "sense"
    /\ UNCHANGED <<lineageVars, step, turnVars>>

\* org.sense()
Sense ==
    /\ pc = "sense"
    /\ LET org == organisms[idx]
           d == ScanIntent(org, nutrient_a)
       IN  IF d = <<0, 0>>
           THEN \E rx \in RandomSteps, ry \in RandomSteps :
                    organisms' = [organisms EXCEPT ![idx].dx = rx, ![idx].dy = ry]
           ELSE organisms' = [organisms EXCEPT ![idx].dx = d[1], ![idx].dy = d[2]]
    /\ pc' = "move"
    /\ UNCHANGED <<worldVars, base_genome, generation, evolutionary_potential,
                   milestone_pop_50_reached, simVars, turnVars>>

\* org.move()
Move ==
    /\ pc = "move"
    /\ organisms' = [organisms EXCEPT ![idx] = Moved(@)]
    /\ pc' = "eat"
    /\ UNCHANGED <<worldVars, base_genome, generation, evolutionary_potential,
                   milestone_pop_50_reached, simVars, turnVars>>

\* org.eat(), with World.consume_nutrient
Eat ==
    /\ pc = "eat"
    /\ LET org == organisms[idx]
           cell == <<org.x, org.y>>
           consumed == Consumed(nutrient_a[cell], AmountToEat(org))
       IN  /\ nutrient_a' = [nutrient_a EXCEPT ![cell] = @ - consumed]
           /\ organisms' = [organisms EXCEPT ![idx].energy = @ + consumed * 5]
    /\ pc' = "metabolize"
    /\ UNCHANGED <<diffusion_rate, toxin_grid, nutrient_amount, active_event,
                   base_genome, generation, evolutionary_potential,
                   milestone_pop_50_reached, simVars, turnVars>>

\* org.metabolize()
Metabolize ==
    /\ pc = "metabolize"
    /\ organisms' = [organisms EXCEPT ![idx] = Metabolized(@, toxin_grid)]
    /\ pc' = "decide"
    /\ UNCHANGED <<worldVars, base_genome, generation, evolutionary_potential,
                   milestone_pop_50_reached, simVars, turnVars>>

\* run_simulation_steps: the two ifs that end the loop body.  survivors holds
\* the organisms by their place in lineage.organisms.
Decide ==
    /\ pc = "decide"
    /\ LET org == organisms[idx]
       IN  IF ShouldReproduce(org)
           THEN /\ Len(organisms) + Len(new_offspring) < MaxPopulation
                /\ \E f \in [Traits -> MutationFactors],
                      sx \in RandomSteps, sy \in RandomSteps :
                       LET parent == [org EXCEPT !.energy = @ \div 2]
                       IN  /\ organisms' = [organisms EXCEPT ![idx] = parent]
                           /\ new_offspring' = Append(new_offspring,
                                  Offspring(parent, base_genome, f, sx, sy))
                           /\ survivors' = IF ShouldDie(parent) THEN survivors
                                           ELSE Append(survivors, idx)
           ELSE /\ survivors' = IF ShouldDie(org) THEN survivors
                                ELSE Append(survivors, idx)
                /\ UNCHANGED <<organisms, new_offspring>>
    /\ IF idx < Len(organisms)
       THEN idx' = idx + 1 /\ pc' = "sense"
       ELSE idx' = idx /\ pc' = "tick_end"
    /\ UNCHANGED <<worldVars, base_genome, generation, evolutionary_potential,
                   milestone_pop_50_reached, step, turnVars>>

\* lineage.organisms = survivors + new_offspring
TickEnd ==
    /\ pc = "tick_end"
    /\ organisms' = [k \in 1 .. Len(survivors) |-> organisms[survivors[k]]]
                    \o new_offspring
    /\ step' = step + 1
    /\ pc' = "sim"
    /\ UNCHANGED <<worldVars, base_genome, generation, evolutionary_potential,
                   milestone_pop_50_reached, idx, survivors, new_offspring,
                   turnVars>>

\* run_simulation_steps returns (the range is used up, or the break);
\* player_lineage.generation += 1
SimulationEnd ==
    /\ pc = "sim"
    /\ step >= StepsPerTurn \/ Extinct(organisms)
    /\ generation' = generation + 1
    /\ pc' = "achieve"
    /\ UNCHANGED <<worldVars, base_genome, organisms, evolutionary_potential,
                   milestone_pop_50_reached, simVars, turnVars>>

\* check_for_achievements(player_lineage)
CheckForAchievements ==
    /\ pc = "achieve"
    /\ IF MilestoneDue(Len(organisms), milestone_pop_50_reached)
       THEN /\ evolutionary_potential' = evolutionary_potential + 75
            /\ milestone_pop_50_reached' = TRUE
       ELSE UNCHANGED <<evolutionary_potential, milestone_pop_50_reached>>
    /\ pc' = "narrate"
    /\ UNCHANGED <<worldVars, base_genome, organisms, generation, simVars, turnVars>>

\* ai_interface.start_new_turn(game_state_json): returns the text, or
\* send_message raises and nothing in game_loop catches it
StartNewTurnOn(outcome) ==
    /\ pc = "narrate"
    /\ narrative' = outcome
    /\ pc' = IF outcome = "exception" THEN "crashed" ELSE "input"
    /\ UNCHANGED <<worldVars, lineageVars, simVars, command_response, command, evolved>>

StartNewTurn == \E outcome \in {"text", "exception"} : StartNewTurnOn(outcome)

\* input("> What is your command? "): a line, or EOFError and the break
PlayerInput ==
    /\ pc = "input"
    /\ \E line \in {"line", "eof"} :
        pc' = IF line = "eof" THEN "done" ELSE "command"
    /\ UNCHANGED <<worldVars, lineageVars, simVars, turnVars>>

\* game_loop steps 6 and 7: get_player_command, then the command is executed
PlayerCommandOn(reply) ==
    /\ pc = "command"
    /\ LET response == PlayerCommandResponse(reply)
       IN  /\ command_response' = response
           /\ IF GetRaises(response)
              THEN /\ pc' = "crashed"
                   /\ UNCHANGED <<base_genome, evolutionary_potential, command, evolved>>
              ELSE LET cmd == CommandOf(response)
                       i == ChoiceIndex(cmd)
                   IN  /\ command' = cmd
                       /\ pc' = "loop_top"
                       /\ IF i # 0 /\ cmd # "wait"
                          THEN /\ base_genome' = GenomeAfterEvolve(base_genome,
                                       evolutionary_potential, GeneMap[cmd],
                                       Choices[i].delta, Choices[i].cost)
                               /\ evolutionary_potential' = PotentialAfterEvolve(
                                       evolutionary_potential, Choices[i].cost)
                               /\ evolved' = EvolveResult(evolutionary_potential,
                                                          Choices[i].cost)
                          ELSE UNCHANGED <<base_genome, evolutionary_potential, evolved>>
    /\ UNCHANGED <<worldVars, organisms, generation, milestone_pop_50_reached,
                   simVars, narrative>>

PlayerCommand == \E reply \in NarratorReplies : PlayerCommandOn(reply)

Next ==
    \/ LoopTop
    \/ WorldEventPhase
    \/ TickBegin
    \/ Sense
    \/ Move
    \/ Eat
    \/ Metabolize
    \/ Decide
    \/ TickEnd
    \/ SimulationEnd
    \/ CheckForAchievements
    \/ StartNewTurn
    \/ PlayerInput
    \/ PlayerCommand

Spec == Init /\ [][Next]_vars

\* ------------------------------------------------- one simulation phase
\* The last tick of a turn's run_simulation_steps, followed from a session in
\* progress.  Its organisms are organisms of spawn_organisms and organisms
\* born of reproduce (a genome of their own, mutated from the default
\* genome): one a meal short of reproducing, one fresh, one a tick from
\* starving.  The reference genome is any the first command can leave.
LowGenome == MutateGenome(DefaultGenome, [t \in Traits |-> (9 * Unit) \div 10])
HighGenome == MutateGenome(DefaultGenome, [t \in Traits |-> (11 * Unit) \div 10])
BornAt(pos, energy, genome) ==
    [x |-> pos[1], y |-> pos[2], energy |-> energy, dx |-> 0, dy |-> 0,
     genome |-> genome, shares_base |-> FALSE]
SimOrganisms ==
    {SpawnedAt(NearSource, 146 * Unit), BornAt(NearSource, 146 * Unit, HighGenome),
     BornAt(Corner, DEFAULT_ENERGY, LowGenome), SpawnedAt(Corner, Unit \div 2)}
ReferenceGenomes ==
    {DefaultGenome,
     GenomeAfterEvolve(DefaultGenome, 100, "SensoryRange", Unit, 30)}

InitSim ==
    /\ InitWorld(DIFFUSION_RATE)
    /\ base_genome \in ReferenceGenomes
    /\ organisms \in [1 .. INITIAL_POPULATION -> SimOrganisms]
    /\ generation = 1
    /\ evolutionary_potential = 100
    /\ milestone_pop_50_reached = FALSE
    /\ InitLocals(StepsPerTurn - 1)
    /\ pc = "sim"

NextSim ==
    \/ TickBegin
    \/ Sense
    \/ Move
    \/ Eat
    \/ Metabolize
    \/ Decide
    \/ TickEnd
    \/ SimulationEnd

SpecSim == InitSim /\ [][NextSim]_vars

\* ------------------------------------------------------- the World alone
\* Any sequence of update_environment, consume_nutrient and
\* world_event_phase calls on a World of any diffusion rate.
DiffusionRates == {0, DIFFUSION_RATE, Unit \div 2, Unit}
ConsumeCells == {SourcePos, NearSource}
ConsumeAmounts == {Unit, 20 * Unit}

InitField ==
    /\ \E rate \in DiffusionRates : InitWorld(rate)
    /\ base_genome = DefaultGenome
    /\ organisms = <<>>
    /\ generation = 1
    /\ evolutionary_potential = 100
    /\ milestone_pop_50_reached = FALSE
    /\ InitLocals(0)
    /\ pc = "field"

FieldOp(name) ==
    /\ pc \in {"field", "updated", "consumed", "event_done"}
    /\ step < MaxOps
    /\ step' = step + 1
    /\ pc' = name
    /\ UNCHANGED <<lineageVars, idx, survivors, new_offspring, turnVars>>

\* world.update_environment()
FieldUpdate ==
    /\ FieldOp("updated")
    /\ UpdateEnvironment

\* world.consume_nutrient(x, y, amount)
FieldConsume ==
    /\ FieldOp("consumed")
    /\ \E cell \in ConsumeCells, amount \in ConsumeAmounts :
        nutrient_a' = [nutrient_a EXCEPT
                          ![cell] = @ - Consumed(nutrient_a[cell], amount)]
    /\ UNCHANGED <<diffusion_rate, toxin_grid, nutrient_amount, active_event>>

\* world_event_phase(world)
FieldEvent ==
    /\ FieldOp("event_done")
    /\ \E chosen \in Events \cup {"none"} : WorldEvent(chosen)

NextField ==
    \/ FieldUpdate
    \/ FieldConsume
    \/ FieldEvent

SpecField == InitField /\ [][NextField]_vars

\* ------------------------------------------------- the PlayerLineage alone
\* Any sequence of evolve_gene calls on a fresh PlayerLineage.
EvolveDeltas == {Unit \div 20, -(Unit \div 50)}
EvolveCosts == {40, 60, 120}

InitLineageAlone ==
    /\ InitWorld(DIFFUSION_RATE)
    /\ InitLineage(FreshOrganisms)
    /\ InitLocals(0)
    /\ pc = "lineage"

\* lineage.evolve_gene(gene, delta, cost); evolved is the value returned
EvolveGene(gene, delta, cost) ==
    /\ pc = "lineage"
    /\ step < MaxOps
    /\ step' = step + 1
    /\ base_genome' = GenomeAfterEvolve(base_genome, evolutionary_potential,
                                        gene, delta, cost)
    /\ evolutionary_potential' = PotentialAfterEvolve(evolutionary_potential, cost)
    /\ evolved' = EvolveResult(evolutionary_potential, cost)
    /\ UNCHANGED <<worldVars, organisms, generation, milestone_pop_50_reached,
                   idx, survivors, new_offspring, narrative, command_response,
                   command, pc>>

NextLineage ==
    \E gene \in Traits, delta \in EvolveDeltas, cost \in EvolveCosts :
        EvolveGene(gene, delta, cost)

SpecLineage == InitLineageAlone /\ [][NextLineage]_vars

\* ------------------------------------------------------------------ claims
Population == 1 .. Len(organisms)
SourceLevel == nutrient_a[SourcePos]

\* C1: after a successful evolve_gene call every organism of the live set
\* still has the trait values its genome had when it was attached to it; only
\* the lineage's reference genome has changed.
C1_AgentsKeepTheirGenome ==
    evolved = "True" =>
        \A i \in Population : GenomeOf(organisms[i]) = organisms[i].genome

\* C2: whichever way the narrator fails in a turn (the narrative request
\* raises, the command request raises, the reply is no JSON, is JSON but no
\* object, is an object without command_to_execute, or names no known
\* command), the turn goes on as with wait: the reference genome and the
\* balance are unchanged, no error leaves the turn, the loop goes on.
FailedReplies ==
    {r \in NarratorReplies :
        \/ r.raises
        \/ r.body.kind # "object"
        \/ r.body.cmd \notin CommandNames}
C2_NarratorFailureIsWait ==
    [][(\/ StartNewTurnOn("exception")
        \/ \E reply \in FailedReplies : PlayerCommandOn(reply))
       => /\ pc' \in {"input", "loop_top"}
          /\ base_genome' = base_genome
          /\ evolutionary_potential' = evolutionary_potential]_vars

\* C3: every cell of the nutrient grid and of the toxin grid is >= 0, after
\* any sequence of update_environment, consume_nutrient and world_event_phase
\* calls, for every diffusion rate.
C3_GridsNeverNegative ==
    \A c \in Cells : nutrient_a[c] >= 0 /\ toxin_grid[c] >= 0

\* An update has run and the next one's diffusion drives a cell below 0.
C3_Witness ==
    /\ pc = "updated"
    /\ step < MaxOps
    /\ \E c \in Cells : Diffuse(nutrient_a, diffusion_rate)[c] < 0

\* C4: evolve_gene called with a cost above the balance returns False and
\* leaves every trait of the reference genome and the balance as they were.
C4_UnaffordableEvolveChangesNothing ==
    [][\A gene \in Traits, delta \in EvolveDeltas, cost \in EvolveCosts :
          (EvolveGene(gene, delta, cost) /\ cost > evolutionary_potential)
          => /\ evolved' = "False"
             /\ base_genome' = base_genome
             /\ evolutionary_potential' = evolutionary_potential]_vars

\* A call was refused after an earlier one had spent part of the balance.
C4_Witness ==
    /\ pc = "lineage"
    /\ evolved = "False"
    /\ evolutionary_potential \in 1 .. 99
    /\ base_genome # DefaultGenome

C6_SourcePinnedAfterUpdate ==
    pc = "updated" =>
        IF active_event = "ice_age"
        THEN 2 * SourceLevel = nutrient_amount
        ELSE SourceLevel = nutrient_amount

\* An update under ice_age, after the source amount was raised by a bloom.
C6_Witness ==
    /\ pc = "updated"
    /\ active_event = "ice_age"
    /\ nutrient_amount > NUTRIENT_AMOUNT
    /\ 2 * SourceLevel = nutrient_amount

\* C7: every trait of an offspring of reproduce lies within 10% of the same
\* trait of the reference genome at that moment, whatever the parent's own
\* genome; reproduce changes neither the reference genome nor the parent's.
WithinTenPercent(value, reference) ==
    LET diff == IF value >= reference THEN value - reference ELSE reference - value
        size == IF reference >= 0 THEN reference ELSE -reference
    IN  10 * diff <= size
C7_OffspringNearReference ==
    [][pc = "decide" =>
        /\ base_genome' = base_genome
        /\ organisms'[idx].genome = organisms[idx].genome
        /\ organisms'[idx].shares_base = organisms[idx].shares_base
        /\ \A k \in Len(new_offspring) + 1 .. Len(new_offspring') :
             \A t \in Traits :
                WithinTenPercent(new_offspring'[k].genome[t], base_genome[t])]_vars

\* An organism with a genome of its own, which is not the reference genome,
\* has reproduced.
C7_Witness ==
    /\ pc = "tick_end"
    /\ Len(new_offspring) = 1
    /\ \E i \in Population :
        /\ ~organisms[i].shares_base
        /\ organisms[i].genome = HighGenome
        /\ organisms[i].energy = new_offspring[1].energy

\* C8: once the live set is empty no update_environment and no organism step
\* runs (the turn's remaining ticks are skipped) and no event phase; at the
\* top of the next turn the loop ends.  End of input at the prompt ends the
\* loop too, and no command is applied.
C8_ExtinctionEndsTheLoop ==
    [][/\ organisms = <<>>
            => /\ organisms' = <<>>
               /\ worldVars' = worldVars
               /\ pc' \notin {"event", "sim", "sense", "move", "eat",
                              "metabolize", "decide", "tick_end"}
               /\ pc = "loop_top" => pc' = "done"
       /\ (pc = "input" /\ pc' = "done")
            => /\ base_genome' = base_genome
               /\ evolutionary_potential' = evolutionary_potential
               /\ command' = "none"
               /\ evolved' = "none"]_vars

\* The loop has ended on a lineage that died out before the turn's last tick.
C8_Witness ==
    /\ pc = "done"
    /\ organisms = <<>>
    /\ step < StepsPerTurn
    /\ step > 0

\* C9: after any sequence of event phases nutrient_amount is 1.5 times the
\* configured level while the active event is nutrient_bloom and exactly the
\* configured level under any other event or none.
C9_BloomScalingIsExact ==
    nutrient_amount = IF active_event = "nutrient_bloom"
                      THEN (NUTRIENT_AMOUNT * 3) \div 2
                      ELSE NUTRIENT_AMOUNT

\* C10: sense scans the neighbourhood of radius max(1, trunc(SensoryRange));
\* the intent it leaves is the unit step towards the first neighbour, in scan
\* order, that holds the highest nutrient level of the neighbourhood.
ClaimedRadius(org) == Max(1, SensoryRadius(org))
ClaimedIntent(org, g) ==
    LET offs == ScanOffsets(ClaimedRadius(org))
        level(k) == g[Wrap(org.x + offs[k][1], org.y + offs[k][2])]
        first == CHOOSE k \in 1 .. Len(offs) :
                    /\ \A j \in 1 .. Len(offs) : level(j) <= level(k)
                    /\ \A j \in 1 .. k - 1 : level(j) < level(k)
    IN  <<Sign(offs[first][1]), Sign(offs[first][2])>>
C10_SenseStepsTowardsRichest ==
    pc = "move" =>
        <<organisms[idx].dx, organisms[idx].dy>>
            = ClaimedIntent(organisms[idx], nutrient_a)

\* C11: a tick runs update_environment once, then sense, move, eat and
\* metabolize for each organism of the live set in its order, and nothing
\* else touches the grids or the other organisms.  An organism is kept when
\* its energy after metabolize is above 0 and then only, it has one offspring
\* when that energy is at least 150 and then only, and a parent is kept.  The
\* live set after the tick is the kept organisms in their order followed by
\* the tick's offspring, which took no step in it, all with energy above 0.
TickSteps == {"sense", "move", "eat", "metabolize", "decide"}
NextStepOf ==
    [p \in TickSteps \ {"decide"} |->
        CASE p = "sense" -> "move"
          [] p = "move" -> "eat"
          [] p = "eat" -> "metabolize"
          [] p = "metabolize" -> "decide"]
C11_TickKeepsTheLivingAndAddsOffspring ==
    [][/\ (pc = "sim" /\ pc' = "sense") =>
            /\ UpdateEnvironment
            /\ idx' = 1 /\ survivors' = <<>> /\ new_offspring' = <<>>
            /\ organisms' = organisms /\ organisms # <<>>
       /\ pc \in TickSteps =>
            /\ idx \in Population
            /\ Len(organisms') = Len(organisms)
            /\ \A j \in Population \ {idx} : organisms'[j] = organisms[j]
            /\ toxin_grid' = toxin_grid
            /\ pc # "eat" => nutrient_a' = nutrient_a
            /\ \A k \in 1 .. Len(new_offspring) : new_offspring'[k] = new_offspring[k]
       /\ pc \in TickSteps \ {"decide"} =>
            /\ pc' = NextStepOf[pc] /\ idx' = idx
            /\ survivors' = survivors /\ new_offspring' = new_offspring
       /\ pc = "decide" =>
            LET energy == organisms[idx].energy
            IN  /\ survivors' = IF energy > 0 THEN Append(survivors, idx)
                                ELSE survivors
                /\ IF energy >= 150 * Unit
                   THEN /\ Len(new_offspring') = Len(new_offspring) + 1
                        /\ new_offspring'[Len(new_offspring')].energy = energy \div 2
                        /\ organisms'[idx].energy = energy \div 2
                        /\ survivors'[Len(survivors')] = idx
                   ELSE /\ new_offspring' = new_offspring
                        /\ organisms'[idx] = organisms[idx]
                /\ IF idx < Len(organisms)
                   THEN pc' = "sense" /\ idx' = idx + 1
                   ELSE pc' = "tick_end"
       /\ pc = "tick_end" =>
            /\ pc' = "sim" /\ step' = step + 1
            /\ organisms' = [k \in 1 .. Len(survivors) |-> organisms[survivors[k]]]
                            \o new_offspring
            /\ \A k \in 1 .. Len(survivors) - 1 : survivors[k] < survivors[k + 1]
            /\ \A i \in 1 .. Len(organisms') : organisms'[i].energy > 0
            /\ nutrient_a' = nutrient_a /\ toxin_grid' = toxin_grid]_vars

\* A tick has ended in which one organism starved and was dropped and another
\* reproduced and was kept, its offspring last in the live set.
C11_Witness ==
    /\ pc = "sim"
    /\ step = StepsPerTurn
    /\ Len(survivors) < INITIAL_POPULATION
    /\ Len(new_offspring) = 1
    /\ Len(organisms) = Len(survivors) + 1
    /\ organisms[Len(organisms)] = new_offspring[1]
    /\ \E k \in 1 .. Len(survivors) :
         organisms[k].energy = new_offspring[1].energy

====
